---- MODULE Spec2Model ----
(***************************************************************************)
(* Model of sourcecode/generate_multi_scale_samples.py: the command line   *)
(* parser, the model loader, and the sample loop (sample, progressive      *)
(* upscaling, squeeze, grid, save), one action per statement group.        *)
(*                                                                         *)
(* Text (option tokens, paths, file names) is a sequence of one-character  *)
(* strings.  An optional value is << >> (None / not given) or <<v>>.       *)
(* A tensor is represented by its shape, a sequence of dimensions.         *)
(***************************************************************************)
EXTENDS Integers, Sequences, FiniteSets, TLC

VARIABLES
    argv,        \* the command line: option name -> << >> or <<token>>
    ckpt,        \* environment: state of the checkpoint file
    dirState,    \* environment: state of the output directory
    fs,          \* environment: paths of the files that exist under the output directory
    pc,          \* position of the process in the script
    args,        \* the parsed arguments (parse_arguments' result)
    gen,         \* the generator object: << >> or <<[depth, latent_size, weights]>>
    save_path,   \* main's save_path
    nxt,         \* the next value range(1, num_samples + 1) yields
    img_num,     \* main's loop variable
    points,      \* the latent tensor of the current iteration
    ss_images,   \* main's ss_images (progressive_upscaling's images: the same list)
    factor,      \* progressive_upscaling's loop variable
    calls,       \* interpolate calls of the current progressive_upscaling call
    orig,        \* the list progressive_upscaling was called with
    num_cols,    \* main's num_cols
    grid_call,   \* the last make_grid call: << >> or <<[img, nrow, n]>>
    ss_image,    \* main's ss_image (the composed grid)
    written,     \* paths imsave has written, in order
    stdout,      \* lines printed so far
    n_construct, \* number of Generator constructions so far
    n_load,      \* number of load_state_dict calls so far
    n_sample,    \* number of latent vectors drawn so far
    failed_at    \* << >> or <<[stage, img]>>: where the unhandled exception was raised

vars == <<argv, ckpt, dirState, fs, pc, args, gen, save_path, nxt, img_num, points,
          ss_images, factor, calls, orig, num_cols, grid_call, ss_image, written, stdout,
          n_construct, n_load, n_sample, failed_at>>

(***************************************************************************)
(* Bounds of the model.                                                    *)
(***************************************************************************)
MaxDepth == 10
MaxSamples == 2
MaxCols == 4
MaxLen == 3

(***************************************************************************)
(* Program constants: the argparse defaults.                               *)
(***************************************************************************)
DefaultLatentSize == 256
DefaultDepth == 6
DefaultNumSamples == 300
DefaultOutDir == <<"i","n","t","e","r","p","_","a","n","i","m","a","t","i","o","n",
                   "_","f","r","a","m","e","s","/">>

(***************************************************************************)
(* Text helpers: str(int), int(str), os.path.join.                         *)
(***************************************************************************)
Digit(d) ==
    CASE d = 0 -> "0" [] d = 1 -> "1" [] d = 2 -> "2" [] d = 3 -> "3" [] d = 4 -> "4"
      [] d = 5 -> "5" [] d = 6 -> "6" [] d = 7 -> "7" [] d = 8 -> "8" [] d = 9 -> "9"

Digits == {Digit(d) : d \in 0..9}

DigitVal(c) == CHOOSE d \in 0..9 : Digit(d) = c

RECURSIVE StrNat(_)
StrNat(n) == IF n < 10 THEN <<Digit(n)>> ELSE Append(StrNat(n \div 10), Digit(n % 10))

\* str(n) of a Python int: decimal, a leading "-" for negatives, no padding
Str(n) == IF n < 0 THEN <<"-">> \o StrNat(-n) ELSE StrNat(n)

AllDigits(t) == Len(t) >= 1 /\ \A i \in 1..Len(t) : t[i] \in Digits

\* does int(t) succeed (argparse's type=int)
IsInt(t) == Len(t) >= 1 /\ IF t[1] = "-" THEN AllDigits(Tail(t)) ELSE AllDigits(t)

RECURSIVE NatVal(_)
NatVal(t) == IF Len(t) = 0 THEN 0
             ELSE 10 * NatVal(SubSeq(t, 1, Len(t) - 1)) + DigitVal(t[Len(t)])

ToInt(t) == IF t[1] = "-" THEN 0 - NatVal(Tail(t)) ELSE NatVal(t)

\* os.path.join(a, b) on a POSIX system
PathJoin(a, b) ==
    IF Len(b) >= 1 /\ b[1] = "/" THEN b
    ELSE IF Len(a) = 0 \/ a[Len(a)] = "/" THEN a \o b
    ELSE a \o <<"/">> \o b

PNG == <<".","p","n","g">>

FileName_ZeroBased(dir, n) == PathJoin(dir, Str(n - 1) \o PNG)

\* the path of the file imsave is given in iteration n
FileName(dir, n) == PathJoin(dir, Str(n) \o PNG)

(***************************************************************************)
(* Tensor helpers.                                                         *)
(***************************************************************************)
RECURSIVE Pow2(_)
\* pow(2, k) for an int k >= 0
Pow2(k) == IF k <= 0 THEN 1 ELSE 2 * Pow2(k - 1)

\* torch.nn.functional.interpolate(x, scale_factor=s) on a batched image
\* (N, C, H, W): every spatial dimension becomes floor(dim * s); s is an int here
interpolate(x, s) == [i \in 1..Len(x) |-> IF i >= 3 THEN x[i] * s ELSE x[i]]

\* th.squeeze(x, dim=0): drops the first dimension when it is 1
squeeze0(x) == IF Len(x) >= 1 /\ x[1] = 1 THEN Tail(x) ELSE x

CeilSqrt_Floor(n) == CHOOSE c \in 0..n : c * c <= n /\ (c + 1) * (c + 1) > n

\* int(ceil(sqrt(n))) for an int n >= 0 below 2^52, where the float sqrt is
\* exact on perfect squares and strictly between two integers otherwise
CeilSqrt(n) == CHOOSE c \in 0..n : c * c >= n /\ \A d \in 0..(c - 1) : d * d < n

\* the position a Python list of `len` elements gives the index i (negative
\* indices count from the end); outside 0..len-1 it is an IndexError
PyIndex(len, i) == IF i < 0 THEN i + len ELSE i

\* the index (0-based) progressive_upscaling rewrites in the iteration `f`
TargetIndex_OffByOne(len, f) == len - f
TargetIndex(len, f) == len - 1 - f

\* the scale factor progressive_upscaling passes to interpolate in the iteration `f`
ScaleFactor(f) == Pow2(f)

UpscaleRangeHas_Inclusive(len, f) == 1 <= f /\ f <= len

\* does range(1, len) yield `f`
UpscaleRangeHas(len, f) == 1 <= f /\ f < len

SampleRangeHas_OneMore(num_samples, n) == 1 <= n /\ n <= num_samples + 1

\* does range(1, num_samples + 1) yield `n`
SampleRangeHas(num_samples, n) == 1 <= n /\ n < num_samples + 1

NumCols_Falsy(len, cols) == IF cols = << >> \/ cols[1] = 0 THEN CeilSqrt(len) ELSE cols[1]

\* main's num_cols for a list of `len` images; cols is args.num_columns
NumCols(len, cols) == IF cols = << >> THEN CeilSqrt(len) ELSE cols[1]

\* Generator(depth, latent_size)(points): one image per depth level, each twice
\* the resolution of the one before, with a batch dimension of 1
BaseResolution == 4
GeneratorForward(depth) ==
    [i \in 1..depth |-> <<1, 3, BaseResolution * Pow2(i - 1), BaseResolution * Pow2(i - 1)>>]

(***************************************************************************)
(* The command lines and environments the model runs.                      *)
(***************************************************************************)
Opt(S) == {<< >>} \cup {<<t>> : t \in S}

BadToken == <<"x">>

DepthTokens == {Str(n) : n \in 1..MaxDepth} \cup {BadToken}
SampleTokens == {Str(n) : n \in (0 - 1)..MaxSamples} \cup {BadToken}
ColumnTokens == {Str(n) : n \in 0..MaxCols}
LatentTokens == {Str(8)}
OutDirs == {<<"o">>, <<"o", "/">>}
GeneratorFiles == {<<"g">>}

\* The default sample count (300 iterations) is run with the other defaults only.
Argvs ==
    {a \in [generator_file : Opt(GeneratorFiles), latent_size : Opt(LatentTokens),
            depth : Opt(DepthTokens), num_samples : {<<t>> : t \in SampleTokens},
            num_columns : Opt(ColumnTokens), out_dir : Opt(OutDirs)] :
        /\ a.latent_size # << >> => (a.depth = << >> /\ a.num_columns = << >>)
        /\ a.generator_file = << >> => (a.latent_size = << >> /\ a.out_dir = << >>)}
    \cup
    {[generator_file |-> <<g>>, latent_size |-> << >>, depth |-> << >>,
      num_samples |-> << >>, num_columns |-> << >>, out_dir |-> o] :
        g \in GeneratorFiles, o \in Opt(OutDirs)}

IntOptions == {"latent_size", "depth", "num_samples", "num_columns"}

UsageError_NotRequired(a) == \E o \in {"latent_size", "depth", "num_samples", "num_columns"} : a[o] # << >> /\ ~IsInt(a[o][1])

\* argparse rejects the command line: a required option is missing or a type=int fails
UsageError(a) ==
    \/ a.generator_file = << >>
    \/ \E o \in IntOptions : a[o] # << >> /\ ~IsInt(a[o][1])

IntOr(o, default) == IF o = << >> THEN default ELSE ToInt(o[1])

\* the namespace parse_args returns for an accepted command line
Namespace(a) ==
    [generator_file |-> IF a.generator_file = << >> THEN << >> ELSE a.generator_file[1],
     latent_size |-> IntOr(a.latent_size, DefaultLatentSize),
     depth |-> IntOr(a.depth, DefaultDepth),
     num_samples |-> IntOr(a.num_samples, DefaultNumSamples),
     num_columns |-> IF a.num_columns = << >> THEN << >> ELSE <<ToInt(a.num_columns[1])>>,
     out_dir |-> IF a.out_dir = << >> THEN DefaultOutDir ELSE a.out_dir[1]]

A == args[1]

Init ==
    /\ argv \in Argvs
    /\ ckpt \in {"ok", "missing", "incompatible"}
    /\ dirState \in {"ok", "missing", "readonly"}
    /\ fs = {}
    /\ pc = "start"
    /\ args = << >>
    /\ gen = << >>
    /\ save_path = << >>
    /\ nxt = 0
    /\ img_num = 0
    /\ points = << >>
    /\ ss_images = << >>
    /\ factor = 0
    /\ calls = << >>
    /\ orig = << >>
    /\ num_cols = 0
    /\ grid_call = << >>
    /\ ss_image = << >>
    /\ written = << >>
    /\ stdout = << >>
    /\ n_construct = 0
    /\ n_load = 0
    /\ n_sample = 0
    /\ failed_at = << >>

\* can imsave create a file in the output directory: the script creates no
\* directory, so it has to exist and be writable
CanWrite_MakeDirs(d) == d # "readonly"
CanWrite(d) == d = "ok"

Raise_Swallowed(stage) ==
    /\ pc' = "loop"
    /\ failed_at' = <<[stage |-> stage, img |-> img_num]>>

\* an exception nobody catches ends the process
Raise(stage) ==
    /\ pc' = "failed"
    /\ failed_at' = <<[stage |-> stage, img |-> img_num]>>

env == <<argv, ckpt, dirState>>

\* lines 28-56 and 132-133: parse_arguments; main runs only when it returns
parse_arguments ==
    /\ pc = "start"
    /\ IF UsageError(argv)
       THEN /\ pc' = "usage_error"
            /\ args' = args
       ELSE /\ pc' = "construct"
            /\ args' = <<Namespace(argv)>>
    /\ UNCHANGED <<env, fs, gen, save_path, nxt, img_num, points, ss_images, factor,
                   calls, orig, num_cols, grid_call, ss_image, written, stdout,
                   n_construct, n_load, n_sample, failed_at>>

\* lines 82-87: the generator object is created
CreateGenerator ==
    /\ pc = "construct"
    /\ stdout' = Append(stdout, <<"Creating generator object ...">>)
    /\ \/ /\ gen' = <<[depth |-> A.depth, latent_size |-> A.latent_size,
                       weights |-> "random"]>>
          /\ n_construct' = n_construct + 1
          /\ pc' = "load"
          /\ UNCHANGED failed_at
       \/ /\ Raise("construct")
          /\ UNCHANGED <<gen, n_construct>>
    /\ UNCHANGED <<env, fs, args, save_path, nxt, img_num, points, ss_images, factor,
                   calls, orig, num_cols, grid_call, ss_image, written,
                   n_load, n_sample>>

LoadWeights_Skipped ==
    /\ pc = "load"
    /\ stdout' = Append(stdout, <<"Loading the generator weights from:", A.generator_file>>)
    /\ pc' = "prepare"
    /\ UNCHANGED <<env, fs, args, gen, save_path, nxt, img_num, points, ss_images, factor,
                   calls, orig, num_cols, grid_call, ss_image, written,
                   n_construct, n_load, n_sample, failed_at>>

\* lines 89-93: the checkpoint is read and loaded into the generator
LoadWeights ==
    /\ pc = "load"
    /\ stdout' = Append(stdout, <<"Loading the generator weights from:", A.generator_file>>)
    /\ IF ckpt = "ok"
       THEN /\ gen' = <<[gen[1] EXCEPT !.weights = "checkpoint"]>>
            /\ n_load' = n_load + 1
            /\ pc' = "prepare"
            /\ UNCHANGED failed_at
       ELSE /\ Raise("load")
            /\ UNCHANGED <<gen, n_load>>
    /\ UNCHANGED <<env, fs, args, save_path, nxt, img_num, points, ss_images, factor,
                   calls, orig, num_cols, grid_call, ss_image, written,
                   n_construct, n_sample>>

\* lines 96-99: save_path is set and the range of the sample loop is created
Prepare ==
    /\ pc = "prepare"
    /\ save_path' = A.out_dir
    /\ stdout' = Append(stdout, <<"Generating scale synchronized images ...">>)
    /\ nxt' = 1
    /\ pc' = "loop"
    /\ UNCHANGED <<env, fs, args, gen, img_num, points, ss_images, factor,
                   calls, orig, num_cols, grid_call, ss_image, written,
                   n_construct, n_load, n_sample, failed_at>>

\* line 99: the loop takes the next img_num, or ends
LoopNext ==
    /\ pc = "loop"
    /\ IF SampleRangeHas(A.num_samples, nxt)
       THEN /\ img_num' = nxt
            /\ nxt' = nxt + 1
            /\ pc' = "sample"
       ELSE /\ pc' = "summary"
            /\ UNCHANGED <<img_num, nxt>>
    /\ UNCHANGED <<env, fs, args, gen, save_path, points, ss_images, factor,
                   calls, orig, num_cols, grid_call, ss_image, written, stdout,
                   n_construct, n_load, n_sample, failed_at>>

\* lines 101-104: a latent vector is drawn and the generator is run on it
Sample ==
    /\ pc = "sample"
    /\ points' = <<1, A.latent_size>>
    /\ n_sample' = n_sample + 1
    /\ \/ /\ ss_images' = GeneratorForward(A.depth)
          /\ pc' = "resize"
          /\ UNCHANGED failed_at
       \/ /\ Raise("sample")
          /\ UNCHANGED ss_images
    /\ UNCHANGED <<env, fs, args, gen, save_path, nxt, img_num, factor,
                   calls, orig, num_cols, grid_call, ss_image, written, stdout,
                   n_construct, n_load>>

\* lines 107, 65-66: progressive_upscaling is entered with main's list
CallProgressiveUpscaling ==
    /\ pc = "resize"
    /\ factor' = 1
    /\ calls' = << >>
    /\ orig' = ss_images
    /\ pc' = "upscale"
    /\ UNCHANGED <<env, fs, args, gen, save_path, nxt, img_num, points, ss_images,
                   num_cols, grid_call, ss_image, written, stdout,
                   n_construct, n_load, n_sample, failed_at>>

\* lines 66-70: one iteration of progressive_upscaling's loop
UpscaleStep ==
    /\ pc = "upscale"
    /\ UpscaleRangeHas(Len(ss_images), factor)
    /\ LET idx == PyIndex(Len(ss_images), TargetIndex(Len(ss_images), factor))
           s == ScaleFactor(factor)
       IN \/ /\ idx \in 0..(Len(ss_images) - 1)
             /\ ss_images' = [ss_images EXCEPT ![idx + 1] = interpolate(@, s)]
             /\ calls' = Append(calls, [index |-> idx, scale_factor |-> s])
             /\ factor' = factor + 1
             /\ UNCHANGED <<pc, failed_at>>
          \/ /\ Raise("upscale")
             /\ UNCHANGED <<ss_images, calls, factor>>
    /\ UNCHANGED <<env, fs, args, gen, save_path, nxt, img_num, points,
                   orig, num_cols, grid_call, ss_image, written, stdout,
                   n_construct, n_load, n_sample>>

\* lines 66, 72: the range is exhausted and the list is returned
UpscaleReturn ==
    /\ pc = "upscale"
    /\ ~UpscaleRangeHas(Len(ss_images), factor)
    /\ pc' = "squeeze"
    /\ UNCHANGED <<env, fs, args, gen, save_path, nxt, img_num, points, ss_images,
                   factor, calls, orig, num_cols, grid_call, ss_image, written, stdout,
                   n_construct, n_load, n_sample, failed_at>>

\* line 113: the batch dimension is squeezed from each image
Squeeze ==
    /\ pc = "squeeze"
    /\ ss_images' = [i \in 1..Len(ss_images) |-> squeeze0(ss_images[i])]
    /\ pc' = "grid"
    /\ UNCHANGED <<env, fs, args, gen, save_path, nxt, img_num, points,
                   factor, calls, orig, num_cols, grid_call, ss_image, written, stdout,
                   n_construct, n_load, n_sample, failed_at>>

\* lines 116-123: the column count is chosen and make_grid is called with it
MakeGrid ==
    /\ pc = "grid"
    /\ num_cols' = NumCols(Len(ss_images), A.num_columns)
    /\ grid_call' = <<[img |-> img_num, nrow |-> num_cols', n |-> Len(ss_images)]>>
    /\ \/ /\ ss_image' = <<[nrow |-> num_cols', tensors |-> ss_images]>>
          /\ pc' = "save"
          /\ UNCHANGED failed_at
       \/ /\ Raise("grid")
          /\ UNCHANGED ss_image
    /\ UNCHANGED <<env, fs, args, gen, save_path, nxt, img_num, points, ss_images,
                   factor, calls, orig, written, stdout,
                   n_construct, n_load, n_sample>>

\* lines 126-127: the grid is written to <save_path>/<img_num>.png; a write
\* that fails after the file was opened may leave the unfinished file behind
Save ==
    /\ pc = "save"
    /\ LET path == FileName(save_path, img_num)
       IN \/ /\ CanWrite(dirState)
             /\ fs' = fs \cup {path}
             /\ written' = Append(written, path)
             /\ pc' = "loop"
             /\ UNCHANGED failed_at
          \/ /\ Raise("save")
             /\ \/ fs' = fs
                \/ CanWrite(dirState) /\ fs' = fs \cup {path}
             /\ UNCHANGED written
    /\ UNCHANGED <<env, args, gen, save_path, nxt, img_num, points, ss_images,
                   factor, calls, orig, num_cols, grid_call, ss_image, stdout,
                   n_construct, n_load, n_sample>>

\* line 129: the completion summary
Summary ==
    /\ pc = "summary"
    /\ stdout' = Append(stdout, <<"Generated", Str(A.num_samples), "images at", save_path>>)
    /\ pc' = "done"
    /\ UNCHANGED <<env, fs, args, gen, save_path, nxt, img_num, points, ss_images,
                   factor, calls, orig, num_cols, grid_call, ss_image, written,
                   n_construct, n_load, n_sample, failed_at>>

Next ==
    \/ parse_arguments
    \/ CreateGenerator
    \/ LoadWeights
    \/ Prepare
    \/ LoopNext
    \/ Sample
    \/ CallProgressiveUpscaling
    \/ UpscaleStep
    \/ UpscaleReturn
    \/ Squeeze
    \/ MakeGrid
    \/ Save
    \/ Summary

Spec == Init /\ [][Next]_vars

\* the script has no concurrency: whatever step is enabled is eventually taken
FairSpec == Spec /\ WF_vars(Next)

(***************************************************************************)
(* progressive_upscaling on its own: called with any list of at most       *)
(* MaxLen batched images, whatever their resolutions.                      *)
(***************************************************************************)
Resolutions == {Pow2(k) : k \in 0..(MaxLen - 1)} \cup {3}
Channels == {1, 3}
Images == {im \in {<<1, c, h, w>> : c \in Channels, h \in Resolutions, w \in Resolutions} :
              im[4] = im[3] \/ im[4] = im[3] + 1}

RECURSIVE ListsOf(_, _)
ListsOf(S, n) == IF n = 0 THEN {<< >>}
                 ELSE ListsOf(S, n - 1) \cup
                      {Append(l, x) : l \in {m \in ListsOf(S, n - 1) : Len(m) = n - 1}, x \in S}

UpInit ==
    /\ argv = [generator_file |-> <<"g">>, latent_size |-> << >>, depth |-> << >>,
               num_samples |-> <<Str(1)>>, num_columns |-> << >>, out_dir |-> << >>]
    /\ ckpt = "ok"
    /\ dirState = "ok"
    /\ fs = {}
    /\ pc = "upscale"
    /\ args = <<Namespace(argv)>>
    /\ gen = << >>
    /\ save_path = << >>
    /\ nxt = 0
    /\ img_num = 0
    /\ points = << >>
    /\ ss_images \in ListsOf(Images, MaxLen)
    /\ factor = 1
    /\ calls = << >>
    /\ orig = ss_images
    /\ num_cols = 0
    /\ grid_call = << >>
    /\ ss_image = << >>
    /\ written = << >>
    /\ stdout = << >>
    /\ n_construct = 0
    /\ n_load = 0
    /\ n_sample = 0
    /\ failed_at = << >>

UpNext ==
    \/ UpscaleStep
    \/ UpscaleReturn

UpSpec == UpInit /\ [][UpNext]_vars

(***************************************************************************)
(* Properties.                                                             *)
(***************************************************************************)
Max0(n) == IF n < 0 THEN 0 ELSE n

\* the resolutions of `l` are r, 2r, 4r, ... in index order (height and width)
Doubling(l) ==
    \A i \in 1..Len(l) : l[i][3] = l[1][3] * Pow2(i - 1) /\ l[i][4] = l[1][4] * Pow2(i - 1)

Returned == pc = "squeeze"

\* C1: called with L >= 1 images of resolutions r, 2r, ..., 2^(L-1)r,
\* progressive_upscaling returns L images in the same order, every one of
\* resolution 2^(L-1)r: the image at index i was scaled once, by 2^(L-1-i),
\* and the last image not at all.
C1_AllAtHighestResolution ==
    (Returned /\ Len(orig) >= 1 /\ Doubling(orig)) =>
        LET L == Len(orig) IN
        /\ Len(ss_images) = L
        /\ \A i \in 0..(L - 1) :
             /\ ss_images[i + 1][1] = orig[i + 1][1]
             /\ ss_images[i + 1][2] = orig[i + 1][2]
             /\ ss_images[i + 1][3] = Pow2(L - 1) * orig[1][3]
             /\ ss_images[i + 1][4] = Pow2(L - 1) * orig[1][4]
             /\ ss_images[i + 1][3] = Pow2(L - 1 - i) * orig[i + 1][3]
             /\ ss_images[i + 1][4] = Pow2(L - 1 - i) * orig[i + 1][4]
        /\ Len(calls) = L - 1
        /\ \A i \in 0..(L - 2) :
             Cardinality({k \in 1..Len(calls) : calls[k].index = i}) = 1
        /\ \A k \in 1..Len(calls) :
             calls[k].index < L - 1 /\ calls[k].scale_factor = Pow2(L - 1 - calls[k].index)

C1_Witness ==
    /\ Returned
    /\ Len(orig) = 3
    /\ Doubling(orig)
    /\ orig[1][1] # orig[2][1] \/ orig[1][2] # orig[2][2]
    /\ ss_images[1][3] = 4 * orig[1][3]
    /\ ss_images # orig

\* C8: called with a list of one image (or none), progressive_upscaling
\* makes no interpolate call, cannot fail, and returns the list unchanged.
C8_NoOpOnShortLists ==
    Len(orig) <= 1 =>
        /\ calls = << >>
        /\ ss_images = orig
        /\ pc \in {"upscale", "squeeze"}
        /\ failed_at = << >>

C8_Witness == Returned /\ Len(orig) = 1 /\ ss_images = orig /\ calls = << >>

\* the part of a path after its last "/"
RECURSIVE BaseName(_)
BaseName(path) ==
    IF Len(path) = 0 \/ path[Len(path)] = "/" THEN << >>
    ELSE Append(BaseName(SubSeq(path, 1, Len(path) - 1)), path[Len(path)])

\* `path` is <dir>/<i>.png: in the directory, the index in decimal without padding
NamedByIndex(path, dir, i) ==
    LET base == BaseName(path)
        stem == SubSeq(base, 1, Len(base) - Len(PNG))
        head == SubSeq(path, 1, Len(path) - Len(base))
    IN /\ Len(base) > Len(PNG)
       /\ SubSeq(base, Len(base) - Len(PNG) + 1, Len(base)) = PNG
       /\ AllDigits(stem)
       /\ stem[1] # "0"
       /\ NatVal(stem) = i
       /\ head \in {dir, dir \o <<"/">>}
       /\ head[Len(head)] = "/"

\* C2: the k-th file written is <out_dir>/<k>.png (1-based, no padding), one
\* per completed iteration and nothing else; a run that reaches the end has
\* written exactly the files 1.png .. N.png (N of them when N >= 0).
C2_FilesOneToN ==
    /\ \A k \in 1..Len(written) : NamedByIndex(written[k], A.out_dir, k)
    /\ \A k \in 1..Len(written) : written[k] \in fs
    /\ Cardinality({written[k] : k \in 1..Len(written)}) = Len(written)
    /\ pc # "failed" => fs = {written[k] : k \in 1..Len(written)}
    /\ pc = "loop" => Len(written) = nxt - 1
    /\ pc \in {"sample", "resize", "upscale", "squeeze", "grid", "save"} =>
          Len(written) = img_num - 1
    /\ pc = "done" => Len(written) = Max0(A.num_samples)

C2_Witness ==
    /\ pc = "done"
    /\ A.num_samples = DefaultNumSamples
    /\ Len(written) = DefaultNumSamples
    /\ written[10] = DefaultOutDir \o <<"1", "0", ".", "p", "n", "g">>

\* C3: without --generator_file the process ends in argument parsing: no
\* generator is constructed, nothing is loaded, sampled, printed or written.
C3_MissingGeneratorFile ==
    argv.generator_file = << >> =>
        /\ pc \in {"start", "usage_error"}
        /\ args = << >>
        /\ gen = << >>
        /\ n_construct = 0
        /\ n_load = 0
        /\ n_sample = 0
        /\ points = << >>
        /\ written = << >>
        /\ fs = {}
        /\ stdout = << >>

C3_Witness ==
    /\ pc = "usage_error"
    /\ argv.generator_file = << >>
    /\ argv.num_samples # << >> /\ IsInt(argv.num_samples[1])
    /\ argv.depth = << >>

InLoopStages == {"sample", "upscale", "grid", "save"}

HasSummary == \E k \in 1..Len(stdout) : stdout[k][1] = "Generated"

\* C4: after a failure in iteration k the process has stopped for good: the
\* files 1.png .. (k-1).png are in place, there is no other file (but the
\* unfinished k.png, when it was the write of iteration k that failed), no
\* further step (no later iteration, no retry) is taken and no summary printed.
C4_FailureAbortsLoop ==
    failed_at # << >> =>
        /\ pc = "failed"
        /\ ~ENABLED Next
        /\ ~HasSummary
        /\ failed_at[1].stage \in InLoopStages =>
             LET k == failed_at[1].img IN
             /\ 1 <= k /\ k <= A.num_samples
             /\ img_num = k
             /\ Len(written) = k - 1
             /\ \A i \in 1..(k - 1) :
                  written[i] \in fs /\ NamedByIndex(written[i], A.out_dir, i)
             /\ \A p \in fs \ {written[i] : i \in 1..(k - 1)} :
                  failed_at[1].stage = "save" /\ NamedByIndex(p, A.out_dir, k)

C4_Witness ==
    /\ pc = "failed"
    /\ failed_at # << >>
    /\ failed_at[1].stage = "grid"
    /\ failed_at[1].img = 2
    /\ Len(written) = 1
    /\ A.num_samples > 2

IsCeilSqrt(c, n) == c >= 0 /\ c * c >= n /\ (c = 0 \/ (c - 1) * (c - 1) < n)

\* C5: without --num_columns, make_grid is called with ceil(sqrt(L)) columns
\* for a list of L images (6 -> 3, 9 -> 3, 10 -> 4), and L is the depth.
C5_AutoColumns ==
    (grid_call # << >> /\ argv.num_columns = << >>) =>
        LET c == grid_call[1].nrow
            L == grid_call[1].n
        IN /\ IsCeilSqrt(c, L)
           /\ c = num_cols
           /\ L = A.depth
           /\ IsCeilSqrt(c, A.depth)
           /\ L = 6 => c = 3
           /\ L = 9 => c = 3
           /\ L = 10 => c = 4

C5_Witness ==
    /\ grid_call # << >>
    /\ argv.num_columns = << >>
    /\ grid_call[1].n = 10
    /\ grid_call[1].nrow = 4
    /\ pc = "save"

\* C6: with --num_columns c, make_grid is called with exactly c columns in
\* every iteration, whatever the number of images (c larger than it, c = 0).
C6_ExplicitColumns ==
    (grid_call # << >> /\ argv.num_columns # << >>) =>
        /\ grid_call[1].nrow = NatVal(argv.num_columns[1])
        /\ num_cols = NatVal(argv.num_columns[1])
        /\ pc = "save" => ss_image[1].nrow = NatVal(argv.num_columns[1])

C6_Witness ==
    /\ grid_call # << >>
    /\ argv.num_columns = <<Str(0)>>
    /\ grid_call[1].nrow = 0
    /\ grid_call[1].img = 2
    /\ grid_call[1].n >= 1

\* the order of the pipeline: Parser, Loader, then Sampler, Synchronizer,
\* Composer, Writer per sample; any step may instead end the process
PipelineOrder ==
    {<<"start", "construct">>, <<"start", "usage_error">>, <<"construct", "load">>,
     <<"load", "prepare">>, <<"prepare", "loop">>, <<"loop", "sample">>,
     <<"loop", "summary">>, <<"sample", "resize">>, <<"resize", "upscale">>,
     <<"upscale", "squeeze">>, <<"squeeze", "grid">>, <<"grid", "save">>,
     <<"save", "loop">>, <<"summary", "done">>}
    \cup {<<p, "failed">> : p \in {"construct", "load", "sample", "upscale", "grid", "save"}}

Loaded == gen # << >> /\ gen[1].weights = "checkpoint"

SequentialState ==
    /\ n_construct <= 1
    /\ n_load <= n_construct
    /\ pc \notin {"start", "usage_error"} => args # << >>
    /\ pc \in {"loop", "sample", "resize", "upscale", "squeeze", "grid", "save",
               "summary", "done"} =>
          (n_construct = 1 /\ n_load = 1 /\ Loaded)
    /\ n_sample >= 1 => (n_construct = 1 /\ n_load = 1 /\ Loaded)
    /\ n_sample = IF pc = "sample" THEN img_num - 1 ELSE img_num
    /\ pc = "sample" => Len(written) = n_sample

SequentialStep ==
    /\ pc' # pc => <<pc, pc'>> \in PipelineOrder
    /\ Loaded => gen' = gen
    /\ n_sample >= 1 => (n_construct' = n_construct /\ n_load' = n_load)
    /\ n_sample' # n_sample => (n_sample' = n_sample + 1 /\ Len(written) = n_sample)
    /\ written' # written => (pc = "save" /\ Len(written') = n_sample)
    /\ args # << >> => args' = args

\* C7: the steps run in pipeline order; the generator is constructed and
\* loaded once, before the first sample, and never again or changed after;
\* each iteration's file is written before the next latent vector is drawn.
C7_PipelineOrder == [](SequentialState) /\ [][SequentialStep]_vars

C7_Witness ==
    /\ pc = "sample"
    /\ img_num = 2
    /\ n_sample = 1
    /\ Len(written) = 1
    /\ n_load = 1
    /\ Loaded

BadDir == dirState # "ok"

\* C9 as stated: with a missing or unwritable output directory the run fails
\* (at the first write) and never completes; no directory, no file.
C9_AlwaysFails ==
    BadDir =>
        /\ pc # "done"
        /\ written = << >>
        /\ fs = {}
        /\ (failed_at # << >> /\ failed_at[1].stage = "save") => failed_at[1].img = 1

\* C9, amended: with a missing or unwritable output directory no file is
\* ever written and the directory is left as it was; a run of one sample or
\* more does not complete: if nothing fails earlier it fails at the write of
\* iteration 1, after the weights were loaded and the first grid composed.
\* A run of no sample (num_samples <= 0) never writes and completes.
C9_FailsAtFirstWrite ==
    BadDir =>
        /\ written = << >>
        /\ fs = {}
        /\ img_num <= 1
        /\ pc = "done" => (A.num_samples <= 0 /\ n_sample = 0)
        /\ pc = "save" => ~ENABLED (Save /\ pc' # "failed")
        /\ (failed_at # << >> /\ failed_at[1].stage = "save") =>
              /\ failed_at[1].img = 1
              /\ Loaded
              /\ ss_image # << >> /\ grid_call[1].img = 1
        /\ (pc \in {"summary", "done"}) => A.num_samples <= 0

C9_Witness ==
    /\ dirState = "missing"
    /\ pc = "failed"
    /\ failed_at[1].stage = "save"
    /\ failed_at[1].img = 1
    /\ A.num_samples = 2
    /\ Loaded
    /\ ss_image # << >>

Terminated == pc \in {"done", "failed", "usage_error"}

\* the summary line: the count as given, in decimal, and the output path
SummaryOf(line, n, path) ==
    /\ Len(line) = 4
    /\ line[1] = "Generated"
    /\ IsInt(line[2]) /\ ToInt(line[2]) = n
    /\ line[4] = path

CompletedRight ==
    /\ n_sample = Max0(A.num_samples)
    /\ img_num = Max0(A.num_samples)
    /\ Len(written) = Max0(A.num_samples)
    /\ A.num_samples <= 0 => (written = << >> /\ fs = {})
    /\ Len(stdout) = 4
    /\ SummaryOf(stdout[Len(stdout)], A.num_samples, A.out_dir)

\* C10: every run ends; one in which no step fails ends after exactly
\* max(N, 0) iterations with the summary (count N, output path) printed last.
C10_Terminates == <>Terminated /\ [](pc = "done" => CompletedRight)

C10_Witness ==
    /\ pc = "done"
    /\ A.num_samples = 0 - 1
    /\ written = << >>
    /\ n_sample = 0
    /\ SummaryOf(stdout[Len(stdout)], 0 - 1, A.out_dir)

====
